---------------------------- MODULE Spec2Model ----------------------------
(***************************************************************************)
(* Model of src/EMR/Falco/source/spark_runner/run_pipeline_multiple_files.py *)
(* (the Spark RNA-seq pipeline): the FASTQ splitter, the per-partition     *)
(* stage alignment_count_step with its external tools, and the three-phase *)
(* aggregation of the driver.                                              *)
(*                                                                         *)
(* Text is modelled at character level: a Python str is a sequence of      *)
(* one-character strings, so that split, rsplit, rstrip, startswith and    *)
(* the string order used by sort_index are computed, not assumed.  The     *)
(* program is Python 2 code (subprocess output is compared with str        *)
(* literals, DataFrame.append is used), so pipes carry str.                *)
(***************************************************************************)
EXTENDS Naturals, Integers, Sequences, FiniteSets, Bags, TLC

VARIABLES
    \* ---- SampleId derivation (alignment_count_step, lines 355-357)
    nm_file_name,      \* the partition name handed to the step
    nm_sample_name,    \* the derived sample_name, or None before the step
    \* ---- split_interleaved_file
    sp_content,        \* file_content: the lines of the batch, each a sequence of fields
    sp_result,         \* None, or what the call returned and wrote
    \* ---- the driver's aggregation (__main__, lines 471-490)
    ag_pc,             \* the stage the job is in
    ag_input,          \* per partition: its name, its sample_name, what its tools
                       \* reported and the records its step returned
    count_output,      \* the RDD under reduceByKey(sum_gene_counts), a bag of <<key, value>>
    count_by_gene,     \* the RDD under reduceByKey(merge_count_by_gene_id), a bag
    frames,            \* the RDD of DataFrames under reduce(combine_gene_counts), a bag
    count_summary,     \* None or the reduced DataFrame
    expressions_file,  \* None or the frame written to samples_expression.csv
    qc_report_file,    \* None or the frame written to samples_qc_report.csv
    \* ---- the flatMap stage: alignment_count_step on every partition (line 471)
    parser_result,     \* the parsed command line: aligner, counter, run_picard
    input_files,       \* wholeTextFiles: per partition its (file_name, file_content)
    task,              \* per partition: where its step is and the step's local variables
    fs,                \* the scratch file system: the <<alignment_dir, entry>> that exist
    emitted,           \* per partition: None or the list its step returned to the engine
    invocation         \* None or the most recent tool step: what the tool did and
                       \* what the step made of it

nameVars == <<nm_file_name, nm_sample_name>>
splitVars == <<sp_content, sp_result>>
aggVars == <<ag_pc, ag_input, count_output, count_by_gene, frames, count_summary,
             expressions_file, qc_report_file>>

stageVars == <<parser_result, input_files, task, fs, emitted, invocation>>

vars == <<nameVars, splitVars, aggVars, stageVars>>

\* Python's None and a held value: a variable that may be unset holds None or Some(v)
None == <<>>
Some(v) == <<v>>
ValueOf(opt) == opt[1]

\* the str ""
EmptyStr == <<>>

\* the values of the variables of the parts of the program that are not running
NameIdle == nm_file_name = <<>> /\ nm_sample_name = None
SplitIdle == sp_content = <<>> /\ sp_result = None
AggIdle ==
    /\ ag_pc = "idle"
    /\ ag_input = <<>>
    /\ count_output = EmptyBag
    /\ count_by_gene = EmptyBag
    /\ frames = EmptyBag
    /\ count_summary = None
    /\ expressions_file = None
    /\ qc_report_file = None

StageIdle ==
    /\ parser_result = <<>>
    /\ input_files = <<>>
    /\ task = <<>>
    /\ fs = {}
    /\ emitted = <<>>
    /\ invocation = None

(***************************************************************************)
(* str helpers                                                             *)
(***************************************************************************)

\* s[i:] of Python, 1-based: the characters from position i on
Tail_From(s, i) == SubSeq(s, i, Len(s))

\* whether pat occurs in s at position i
OccursAt(s, pat, i) ==
    /\ i >= 1
    /\ i + Len(pat) - 1 <= Len(s)
    /\ SubSeq(s, i, i + Len(pat) - 1) = pat

\* str.find / str.rfind as sets of positions
Occurrences(s, pat) == {i \in 1..Len(s) : OccursAt(s, pat, i)}

MinOf(S) == CHOOSE x \in S : \A y \in S : x <= y
MaxOf(S) == CHOOSE x \in S : \A y \in S : x >= y

\* str.split(sep) for a non-empty separator: always at least one piece
RECURSIVE StrSplit(_, _)
StrSplit(s, sep) ==
    IF Occurrences(s, sep) = {}
    THEN <<s>>
    ELSE LET i == MinOf(Occurrences(s, sep))
         IN  <<SubSeq(s, 1, i - 1)>> \o StrSplit(Tail_From(s, i + Len(sep)), sep)

\* str.rsplit(sep, 1): split once, at the last occurrence
StrRSplitOnce(s, sep) ==
    IF Occurrences(s, sep) = {}
    THEN <<s>>
    ELSE LET i == MaxOf(Occurrences(s, sep))
         IN  <<SubSeq(s, 1, i - 1), Tail_From(s, i + Len(sep))>>

\* str.rstrip(chars)
RECURSIVE StrRStrip(_, _)
StrRStrip(s, chars) ==
    IF s # <<>> /\ s[Len(s)] \in chars
    THEN StrRStrip(SubSeq(s, 1, Len(s) - 1), chars)
    ELSE s

\* str.startswith
StartsWith(s, pat) == OccursAt(s, pat, 1)

Last(seq) == seq[Len(seq)]

RECURSIVE Flatten(_)
Flatten(ss) == IF ss = <<>> THEN <<>> ELSE Head(ss) \o Flatten(Tail(ss))

(***************************************************************************)
(* alignment_count_step, lines 355-359: prefix, sample_name, alignment_dir *)
(***************************************************************************)

SLASH == <<"/">>
DOT == <<".">>
PART == <<"_", "p", "a", "r", "t">>

S1 == <<"S", "1">>
S1_part0_txt == S1 \o PART \o <<"0", ".", "t", "x", "t">>
S1_part1_txt == S1 \o PART \o <<"1", ".", "t", "x", "t">>

\* prefix = file_name.rstrip("/").split("/")[-1].split(".")[0]
Prefix(file_name) ==
    StrSplit(Last(StrSplit(StrRStrip(file_name, {"/"}), SLASH)), DOT)[1]

\* (mutant) split at the first "_part" instead of the last
SampleNameOfPrefix_FirstPart(prefix) == StrSplit(prefix, PART)[1]

\* sample_name = prefix.rsplit("_part", 1)[0]
SampleNameOfPrefix(prefix) == StrRSplitOnce(prefix, PART)[1]

SampleName(file_name) == SampleNameOfPrefix(Prefix(file_name))

\* the segments partition names are built from
NameSegments ==
    { <<"S", "1">>, PART, <<"0">>, <<"1">>, DOT, SLASH, <<".", "t", "x", "t">> }

MaxSegments == 4

RECURSIVE SegmentSeqs(_)
SegmentSeqs(n) ==
    IF n = 0 THEN {<<>>}
    ELSE LET shorter == SegmentSeqs(n - 1)
         IN  shorter \cup {s \o <<g>> : s \in {t \in shorter : Len(t) = n - 1},
                                        g \in NameSegments}

FileNames == {Flatten(ss) : ss \in SegmentSeqs(MaxSegments)}

(***************************************************************************)
(* split_interleaved_file, lines 36-84.  file_content is modelled as the   *)
(* sequence of its lines and a line as the sequence of its tab-separated   *)
(* fields (a line always has at least one field: "" has the one field ""). *)
(* A field is "" or a token <<line, k>> without white space, so str.strip  *)
(* removes exactly the leading and trailing empty fields and blank lines.  *)
(***************************************************************************)

fastq_line_count_se == 4
fastq_line_count_pe == 8

IsBlankLine(line) == \A k \in 1..Len(line) : line[k] = EmptyStr

\* line.strip().split("\t")
StripSplitLine(line) ==
    IF IsBlankLine(line)
    THEN <<EmptyStr>>
    ELSE LET first == MinOf({k \in 1..Len(line) : line[k] # EmptyStr})
             last == MaxOf({k \in 1..Len(line) : line[k] # EmptyStr})
         IN  SubSeq(line, first, last)

\* file_content.strip().split("\n")
StripSplitContent(lines) ==
    IF \A i \in 1..Len(lines) : IsBlankLine(lines[i])
    THEN << <<EmptyStr>> >>
    ELSE LET keep == {i \in 1..Len(lines) : ~IsBlankLine(lines[i])}
             first == MinOf(keep)
             last == MaxOf(keep)
             fl == lines[first]
             ll == lines[last]
             cutHead(l) == SubSeq(l, MinOf({k \in 1..Len(l) : l[k] # EmptyStr}), Len(l))
             cutTail(l) == SubSeq(l, 1, MaxOf({k \in 1..Len(l) : l[k] # EmptyStr}))
         IN  [i \in 1..(last - first + 1) |->
                 LET l == lines[first + i - 1]
                     l1 == IF i = 1 THEN cutHead(l) ELSE l
                 IN  IF i = last - first + 1 THEN cutTail(l1) ELSE l1]

FQ1 == <<"_", "1", ".", "f", "q">>
FQ2 == <<"_", "2", ".", "f", "q">>

\* the state before the loop, lines 46-56: the mate-1 file is open and empty
SplitStart(file_prefix, output_dir) ==
    [ count |-> 0,
      paired_reads |-> FALSE,
      output_file_names |-> << output_dir \o SLASH \o file_prefix \o FQ1 >>,
      written |-> << <<>> >> ]

\* (mutant) the count == 0 test dropped: any 8-field line switches to paired
DetectsPaired_AnyLine(st, line) ==
    Len(StripSplitLine(line)) = fastq_line_count_pe

\* lines 59-63: pairing is decided on the first line only
DetectsPaired(st, line) ==
    st.count = 0 /\ Len(StripSplitLine(line)) = fastq_line_count_pe

\* (mutant) the continue of lines 68-69 dropped: a paired batch writes the
\* slices parts[:4] and parts[4:] of every line
SplitLine_NoSkip(st, line, file_prefix, output_dir) ==
    LET opened ==
            IF DetectsPaired(st, line)
            THEN [st EXCEPT !.paired_reads = TRUE,
                            !.output_file_names =
                                Append(@, output_dir \o SLASH \o file_prefix \o FQ2),
                            !.written = <<st.written[1], <<>> >>]
            ELSE st
        parts == StripSplitLine(line)
    IN  IF opened.paired_reads
        THEN [opened EXCEPT
                !.written = << @[1] \o SubSeq(parts, 1, MinOf({fastq_line_count_se,
                                                               Len(parts)})),
                               @[2] \o SubSeq(parts, fastq_line_count_se + 1,
                                              Len(parts)) >>,
                !.count = @ + 1]
        ELSE [opened EXCEPT !.written = <<@[1] \o parts>>, !.count = @ + 1]

\* one iteration of the loop, lines 57-78
SplitLine(st, line, file_prefix, output_dir) ==
    LET opened ==
            IF DetectsPaired(st, line)
            THEN [st EXCEPT !.paired_reads = TRUE,
                            !.output_file_names =
                                Append(@, output_dir \o SLASH \o file_prefix \o FQ2),
                            !.written = <<st.written[1], <<>> >>]
            ELSE st
        parts == StripSplitLine(line)
    IN  IF opened.paired_reads
        THEN IF Len(parts) # fastq_line_count_pe
             THEN opened                                            \* continue
             ELSE [opened EXCEPT
                     !.written = << @[1] \o SubSeq(parts, 1, fastq_line_count_se),
                                    @[2] \o SubSeq(parts, fastq_line_count_se + 1,
                                                   Len(parts)) >>,
                     !.count = @ + 1]
        ELSE [opened EXCEPT !.written = <<@[1] \o parts>>, !.count = @ + 1]

RECURSIVE SplitLoop(_, _, _, _)
SplitLoop(st, lines, file_prefix, output_dir) ==
    IF lines = <<>>
    THEN st
    ELSE SplitLoop(SplitLine(st, Head(lines), file_prefix, output_dir),
                   Tail(lines), file_prefix, output_dir)

\* the call: what it returns (output_file_names, paired_reads) and what the
\* files hold once closed (written[i] are the lines of output_file_names[i])
split_interleaved_file(file_prefix, file_content, output_dir) ==
    SplitLoop(SplitStart(file_prefix, output_dir), StripSplitContent(file_content),
              file_prefix, output_dir)

\* ---- the batches the splitter is run on
MaxLines == 3

\* a line of n tokens with lead empty fields before and trail after them
MkLine(tag, lead, n, trail) ==
    [k \in 1..(lead + n + trail) |->
        IF k <= lead \/ k > lead + n THEN EmptyStr ELSE <<tag, k - lead>>]

LineKinds ==
    { <<0, 0, 1>>,      \* the empty line
      <<0, 0, 2>>,      \* a line holding one tab
      <<0, 3, 0>>, <<0, 4, 0>>, <<0, 8, 0>>, <<0, 9, 0>>,
      <<0, 8, 1>>,      \* 8 fields and a trailing tab
      <<1, 7, 0>> }     \* a leading tab and 7 fields

Contents ==
    UNION { { [i \in 1..n |-> MkLine(i, kinds[i][1], kinds[i][2], kinds[i][3])] :
                kinds \in [1..n -> LineKinds] } : n \in 0..MaxLines }

SplitPrefix == <<"S", "1">>
SplitDir == <<"/", "d">>

InitSplit ==
    /\ sp_content \in Contents
    /\ sp_result = None
    /\ NameIdle
    /\ AggIdle
    /\ StageIdle

SplitInterleavedFile ==
    /\ sp_result = None
    /\ sp_result' = Some(split_interleaved_file(SplitPrefix, sp_content, SplitDir))
    /\ UNCHANGED <<sp_content, nameVars, aggVars, stageVars>>

NextSplit == SplitInterleavedFile

SpecSplit == InitSplit /\ [][NextSplit]_vars

InitName ==
    /\ nm_file_name \in FileNames
    /\ nm_sample_name = None
    /\ SplitIdle
    /\ AggIdle
    /\ StageIdle

DeriveSampleName ==
    /\ nm_sample_name = None
    /\ nm_sample_name' = Some(SampleName(nm_file_name))
    /\ UNCHANGED <<nm_file_name, splitVars, aggVars, stageVars>>

NextName == DeriveSampleName

SpecName == InitName /\ [][NextName]_vars

(***************************************************************************)
(* The aggregation of the driver, lines 471-490.  An RDD is a bag: the     *)
(* engine applies a reduce function to any two elements (of one key, for   *)
(* reduceByKey), in either argument order, until one is left.  A DataFrame *)
(* is its index (row labels), its columns and its rows of cells; a cell is *)
(* Some(value) or NaN.  pandas of Python 2 orders the columns of a frame   *)
(* built from a dict, and of the union taken by append, by label.          *)
(***************************************************************************)

TAB == <<"\t">>
QC_PREFIX == <<"Q", "C", "_">>

\* ord() of the characters that occur in keys and sample names
CharCode(c) ==
    CASE c = "\t" -> 9   [] c = "." -> 46  [] c = "/" -> 47
      [] c = "0" -> 48   [] c = "1" -> 49  [] c = "2" -> 50
      [] c = "C" -> 67   [] c = "G" -> 71  [] c = "Q" -> 81  [] c = "S" -> 83
      [] c = "_" -> 95   [] c = "a" -> 97  [] c = "p" -> 112 [] c = "r" -> 114
      [] c = "t" -> 116  [] c = "x" -> 120

\* a < b for str
RECURSIVE StrLess(_, _)
StrLess(a, b) ==
    IF a = <<>> THEN b # <<>>
    ELSE IF b = <<>> THEN FALSE
    ELSE IF a[1] = b[1] THEN StrLess(Tail(a), Tail(b))
    ELSE CharCode(a[1]) < CharCode(b[1])

\* sorted(labels)
RECURSIVE SortedStrs(_)
SortedStrs(labels) ==
    IF labels = {} THEN <<>>
    ELSE LET m == CHOOSE x \in labels : \A y \in labels \ {x} : StrLess(x, y)
         IN  <<m>> \o SortedStrs(labels \ {m})

NaN == None

Range(seq) == {seq[i] : i \in 1..Len(seq)}

\* (mutant) the running sum is dropped
sum_gene_counts_KeepLast(cumulative_count, current_count) == current_count

\* line 315
sum_gene_counts(cumulative_count, current_count) == cumulative_count + current_count

\* lines 319-328: "file_group\tgene_id", count  ->  gene_id, [(file_group, count)]
set_gene_id_as_key(keyval) ==
    LET parts == StrSplit(keyval[1], TAB)
    IN  <<parts[2], << <<parts[1], keyval[2]>> >> >>

\* line 331
merge_count_by_gene_id(file_count_one, file_count_two) == file_count_one \o file_count_two

\* {k: v for k, v in counts}: a later pair of the list replaces an earlier one
DictOf(counts) ==
    [k \in {counts[i][1] : i \in 1..Len(counts)} |->
        counts[MaxOf({i \in 1..Len(counts) : counts[i][1] = k})][2]]

\* the column order of pd.DataFrame(dict, ...)
DictColumns(d) == SortedStrs(DOMAIN d)

\* lines 335-338: pd.DataFrame({k: v for k, v in counts}, index=[gene_id])
process_count_by_gene_id(keyval) ==
    LET d == DictOf(keyval[2])
        cols == DictColumns(d)
    IN  [ index |-> <<keyval[1]>>,
          columns |-> cols,
          values |-> << [j \in 1..Len(cols) |-> Some(d[cols[j]])] >> ]

\* (mutant) append fills the cells of a missing column with 0
MissingCell_Zero == Some(0)

\* the cell append puts where a frame has no such column
MissingCell == NaN

\* the rows of df laid out under the columns cols
Reindexed(df, cols) ==
    [r \in 1..Len(df.values) |->
        [j \in 1..Len(cols) |->
            IF cols[j] \in Range(df.columns)
            THEN df.values[r][CHOOSE c \in 1..Len(df.columns) : df.columns[c] = cols[j]]
            ELSE MissingCell]]

\* (mutant) append keeps the columns in order of appearance instead of sorting them
combine_gene_counts_Unsorted(df_one, df_two) ==
    LET new == SortedStrs(Range(df_two.columns) \ Range(df_one.columns))
        cols == df_one.columns \o new
    IN  [ index |-> df_one.index \o df_two.index,
          columns |-> cols,
          values |-> Reindexed(df_one, cols) \o Reindexed(df_two, cols) ]

\* line 341: df_one.append(df_two)
combine_gene_counts(df_one, df_two) ==
    LET cols == SortedStrs(Range(df_one.columns) \cup Range(df_two.columns))
    IN  [ index |-> df_one.index \o df_two.index,
          columns |-> cols,
          values |-> Reindexed(df_one, cols) \o Reindexed(df_two, cols) ]

\* the row positions of df in ascending label order (equal labels keep their order)
RECURSIVE SortedPositions(_, _)
SortedPositions(index, left) ==
    IF left = {} THEN <<>>
    ELSE LET m == CHOOSE i \in left : \A j \in left \ {i} :
                      \/ StrLess(index[i], index[j])
                      \/ (index[i] = index[j] /\ i < j)
         IN  <<m>> \o SortedPositions(index, left \ {m})

TakeRows(df, positions) ==
    [ index |-> [i \in 1..Len(positions) |-> df.index[positions[i]]],
      columns |-> df.columns,
      values |-> [i \in 1..Len(positions) |-> df.values[positions[i]]] ]

\* (mutant) the rows are left in the order the reduce produced
sort_index_Skipped(df) == df

\* DataFrame.sort_index()
sort_index(df) == TakeRows(df, SortedPositions(df.index, 1..Len(df.index)))

RECURSIVE TruePositions(_, _)
TruePositions(mask, from) ==
    IF from > Len(mask) THEN <<>>
    ELSE (IF mask[from] THEN <<from>> ELSE <<>>) \o TruePositions(mask, from + 1)

\* df[mask] for a boolean list
SelectRows(df, mask) == TakeRows(df, TruePositions(mask, 1))

\* line 476
count_qc_index(df) == [i \in 1..Len(df.index) |-> StartsWith(df.index[i], QC_PREFIX)]

\* line 477
count_only_index(df) == [i \in 1..Len(df.index) |-> ~count_qc_index(df)[i]]

\* lines 479, 486-487: samples_expression.csv
ExpressionReport(df) == sort_index(SelectRows(df, count_only_index(df)))

\* lines 480, 489-490: samples_qc_report.csv
QCReport(df) == sort_index(SelectRows(df, count_qc_index(df)))

One(x) == SetToBag({x})

\* two elements of the bag (possibly two copies of one)
TwoOf(bag, a, b) ==
    /\ BagIn(a, bag)
    /\ BagIn(b, bag)
    /\ (a = b => CopiesIn(a, bag) >= 2)

Replace2(bag, a, b, c) == ((bag (-) One(a)) (-) One(b)) (+) One(c)

RECURSIVE SeqToBag(_)
SeqToBag(seq) == IF seq = <<>> THEN EmptyBag ELSE One(Head(seq)) (+) SeqToBag(Tail(seq))

\* ---- the partitions and tool reports the aggregation is run on
MaxCount == 1

S2_txt == <<"S", "2", ".", "t", "x", "t">>
AggFileNames == <<S1_part0_txt, S1_part1_txt, S2_txt>>

G1 == <<"G", "1">>
G2 == <<"G", "2">>
QC_a == <<"Q", "C", "_", "a">>
ReportedKeys == {G2, G1, QC_a}

\* the list alignment_count_step returns for a partition whose tools report
\* the keys of ks, each with count v (lines 224, 231: sample_name + "\t" + key)
ReturnedRecords(file_name, ks, v) ==
    LET order == SortedStrs(ks)
    IN  [i \in 1..Len(order) |-> <<SampleName(file_name) \o TAB \o order[i], v>>]

\* the counts the tools of partition i may report: any up to MaxCount for the
\* two partitions of S1 (whose counts are summed), MaxCount for S2
CountChoices(i) == IF SampleName(AggFileNames[i]) = S1 THEN 0..MaxCount ELSE {MaxCount}

InitAgg ==
    /\ \E ks \in [1..Len(AggFileNames) -> SUBSET ReportedKeys],
          v \in {f \in [1..Len(AggFileNames) -> 0..MaxCount] :
                    \A i \in 1..Len(AggFileNames) : f[i] \in CountChoices(i)} :
          ag_input = [i \in 1..Len(AggFileNames) |->
                        [ file_name |-> AggFileNames[i],
                          sample_name |-> SampleName(AggFileNames[i]),
                          keys |-> ks[i],
                          count |-> v[i],
                          returned |-> ReturnedRecords(AggFileNames[i], ks[i], v[i]) ]]
    \* line 471: flatMap(alignment_count_step)
    /\ count_output = SeqToBag(Flatten([i \in 1..Len(AggFileNames) |-> ag_input[i].returned]))
    /\ ag_pc = "sum_gene_counts"
    /\ count_by_gene = EmptyBag
    /\ frames = EmptyBag
    /\ count_summary = None
    /\ expressions_file = None
    /\ qc_report_file = None
    /\ NameIdle
    /\ SplitIdle
    /\ StageIdle

\* line 471: one application of sum_gene_counts by reduceByKey
ReduceSumGeneCounts ==
    /\ ag_pc = "sum_gene_counts"
    /\ \E a, b \in BagToSet(count_output) :
          /\ TwoOf(count_output, a, b)
          /\ a[1] = b[1]
          /\ count_output' =
                Replace2(count_output, a, b, <<a[1], sum_gene_counts(a[2], b[2])>>)
    /\ UNCHANGED <<ag_pc, ag_input, count_by_gene, frames, count_summary,
                   expressions_file, qc_report_file, nameVars, splitVars, stageVars>>

\* line 472: every key reduced; map(set_gene_id_as_key)
MapSetGeneIdAsKey ==
    /\ ag_pc = "sum_gene_counts"
    /\ \A a, b \in BagToSet(count_output) : TwoOf(count_output, a, b) => a[1] # b[1]
    /\ count_by_gene' = BagOfAll(set_gene_id_as_key, count_output)
    /\ ag_pc' = "merge_count_by_gene_id"
    /\ UNCHANGED <<ag_input, count_output, frames, count_summary,
                   expressions_file, qc_report_file, nameVars, splitVars, stageVars>>

\* line 472: one application of merge_count_by_gene_id by reduceByKey
ReduceMergeCountByGeneId ==
    /\ ag_pc = "merge_count_by_gene_id"
    /\ \E a, b \in BagToSet(count_by_gene) :
          /\ TwoOf(count_by_gene, a, b)
          /\ a[1] = b[1]
          /\ count_by_gene' =
                Replace2(count_by_gene, a, b, <<a[1], merge_count_by_gene_id(a[2], b[2])>>)
    /\ UNCHANGED <<ag_pc, ag_input, count_output, frames, count_summary,
                   expressions_file, qc_report_file, nameVars, splitVars, stageVars>>

\* line 473: every gene reduced; map(process_count_by_gene_id)
MapProcessCountByGeneId ==
    /\ ag_pc = "merge_count_by_gene_id"
    /\ \A a, b \in BagToSet(count_by_gene) : TwoOf(count_by_gene, a, b) => a[1] # b[1]
    /\ frames' = BagOfAll(process_count_by_gene_id, count_by_gene)
    /\ ag_pc' = "combine_gene_counts"
    /\ UNCHANGED <<ag_input, count_output, count_by_gene, count_summary,
                   expressions_file, qc_report_file, nameVars, splitVars, stageVars>>

\* line 474: one application of combine_gene_counts by reduce
ReduceCombineGeneCounts ==
    /\ ag_pc = "combine_gene_counts"
    /\ \E a, b \in BagToSet(frames) :
          /\ TwoOf(frames, a, b)
          /\ frames' = Replace2(frames, a, b, combine_gene_counts(a, b))
    /\ UNCHANGED <<ag_pc, ag_input, count_output, count_by_gene, count_summary,
                   expressions_file, qc_report_file, nameVars, splitVars, stageVars>>

\* line 474: reduce of an empty RDD raises ValueError; nothing is written
ReduceEmpty ==
    /\ ag_pc = "combine_gene_counts"
    /\ frames = EmptyBag
    /\ ag_pc' = "error"
    /\ UNCHANGED <<ag_input, count_output, count_by_gene, frames, count_summary,
                   expressions_file, qc_report_file, nameVars, splitVars, stageVars>>

\* lines 474-490: the reduced frame is split by its row labels, sorted and written
WriteReports ==
    /\ ag_pc = "combine_gene_counts"
    /\ BagCardinality(frames) = 1
    /\ LET df == CHOOSE x \in BagToSet(frames) : TRUE
       IN  /\ count_summary' = Some(df)
           /\ expressions_file' = Some(ExpressionReport(df))
           /\ qc_report_file' = Some(QCReport(df))
    /\ ag_pc' = "written"
    /\ UNCHANGED <<ag_input, count_output, count_by_gene, frames, nameVars, splitVars, stageVars>>

NextAgg ==
    \/ ReduceSumGeneCounts
    \/ MapSetGeneIdAsKey
    \/ ReduceMergeCountByGeneId
    \/ MapProcessCountByGeneId
    \/ ReduceCombineGeneCounts
    \/ ReduceEmpty
    \/ WriteReports

SpecAgg == InitAgg /\ [][NextAgg]_vars

(***************************************************************************)
(* The flatMap stage: alignment_count_step (lines 350-406) run by the      *)
(* engine on every partition, tasks of different partitions interleaving.  *)
(* A task blocks only while an external tool runs, so a step of the model  *)
(* is the code from one tool's return to the next tool's return.  A tool   *)
(* is a black box: what it exits with, what it prints on stderr, whether   *)
(* it writes its output file and whether its output is well formed are     *)
(* chosen freely.  An exception leaves alignment_count_step at once:       *)
(* nothing in it catches one raised by the splitter or by a tool step.     *)
(***************************************************************************)

TEMP_OUTPUT_FOLDER == <<"/mnt/output">>

\* line 359
AlignmentDir(prefix) == TEMP_OUTPUT_FOLDER \o <<"/alignment_">> \o prefix

\* the entries of a scratch directory: itself, and what the step and its tools put in it
DirEntry == "."
AlignerOutputDir == "aligner_output"
StarLog == "aligner_output/Log.final.out"
CountsTxt == "aligner_output/counts.txt"
RnaMetrics == "aligner_output/output.RNA_Metrics"

\* os.path.isfile / the directory exists
Exists(files, dir, entry) == <<dir, entry>> \in files

\* os.mkdir in try/except (lines 361-364, 372-375): an existing directory is left as it is
Mkdir(files, dir, entry) == files \cup {<<dir, entry>>}

\* open(path, 'w') ... close()
WriteFile(files, dir, entry) == files \cup {<<dir, entry>>}

\* shutil.rmtree(alignment_dir, ignore_errors=True), line 405
Rmtree(files, dir) == {e \in files : e[1] # dir}

\* ---- what a tool may do
StderrTexts == { <<>>, <<"warning">>, <<"ERROR">>, <<"[Errno">> }

\* the outcomes of one run of a tool.  What the step of that tool never looks
\* at is held fixed: HISAT2 and HTSeq have no output file the step tests, the
\* HISAT2 parser takes any text, the stderr of Picard is only put in a message.
ToolOutcomes(tool) ==
    [ returncode : {0, 1},
      stderr : IF tool = "Picard" THEN {<<>>} ELSE StderrTexts,
      writes_output : IF tool \in {"HISAT2", "HTSeq"} THEN {TRUE} ELSE BOOLEAN,
      well_formed : IF tool = "HISAT2" THEN {TRUE} ELSE BOOLEAN ]

\* str.lower() of a word of stderr
LowerWord(w) == IF w = "ERROR" THEN "error" ELSE w

\* marker in text, for the words stderr is made of
ContainsWord(text, marker) == \E i \in 1..Len(text) : text[i] = marker
ContainsWordLower(text, marker) == \E i \in 1..Len(text) : LowerWord(text[i]) = marker

\* what the parsers return for well-formed output of each tool
StarQC(sample_name) ==
    << <<sample_name \o TAB \o <<"QC_STAR_Number_of_input_reads">>, 2>> >>
HisatQC(sample_name) ==
    << <<sample_name \o TAB \o <<"QC_HISAT_reads;_of_these">>, 2>> >>
FeatureCountGenes(sample_name) == << <<sample_name \o TAB \o <<"G1">>, 1>> >>
FeatureCountQC(sample_name) ==
    << <<sample_name \o TAB \o <<"QC_featureCount_assigned">>, 1>> >>
HTSeqGenes(sample_name) == << <<sample_name \o TAB \o <<"G1">>, 1>> >>
HTSeqQC(sample_name) == << <<sample_name \o TAB \o <<"QC_HTSeq_no_feature">>, 1>> >>
PicardQC(sample_name) == << <<sample_name \o TAB \o <<"QC_picard_pf_bases">>, 4>> >>

\* ---- the tool steps.  Each gives: ran (the tool was started), raised (the
\* ---- exception that left the function, "none" if it returned), parsed (the
\* ---- tool's output was read by the parser) and what the function returned.

\* (mutant) the stderr test of line 112 dropped
align_reads_star_IgnoresStderr(sample_name, file_names, dir, o, files) ==
    LET failed == o.returncode # 0 \/ ~Exists(files, dir, StarLog)
    IN  [ tool |-> "STAR", ran |-> TRUE,
          raised |-> IF failed THEN "ToolFailed"
                     ELSE IF ~o.well_formed THEN "ParseError"
                     ELSE "none",
          parsed |-> ~failed,
          output |-> <<>>,
          qc |-> StarQC(sample_name) ]

\* align_reads_star, lines 91-132; files: the scratch files once STAR has exited
align_reads_star(sample_name, file_names, dir, o, files) ==
    LET failed ==
            \/ o.returncode # 0                                        \* line 107
            \/ o.stderr # EmptyStr \/ ~Exists(files, dir, StarLog)     \* line 112
    IN  [ tool |-> "STAR", ran |-> TRUE,
          raised |-> IF failed THEN "ToolFailed"
                     ELSE IF ~o.well_formed THEN "ParseError"           \* int(), line 128
                     ELSE "none",
          parsed |-> ~failed,
          output |-> <<>>,
          qc |-> StarQC(sample_name) ]

\* lines 137-143: "-U {}".format() has no argument for its field
HisatCommandRaises(file_names) == Len(file_names) # 2

\* align_reads_hisat, lines 135-180; its parser takes any stderr text
align_reads_hisat(sample_name, file_names, dir, o, files) ==
    IF HisatCommandRaises(file_names)
    THEN [ tool |-> "HISAT2", ran |-> FALSE, raised |-> "IndexError", parsed |-> FALSE,
           output |-> <<>>, qc |-> <<>> ]
    ELSE [ tool |-> "HISAT2", ran |-> TRUE,
           raised |-> IF o.returncode # 0 THEN "ToolFailed" ELSE "none",   \* line 156
           parsed |-> o.returncode = 0,
           output |-> <<>>,
           qc |-> HisatQC(sample_name) ]

\* count_reads_featurecount, lines 187-233
count_reads_featurecount(sample_name, paired_reads, dir, o, files) ==
    LET failed ==
            \/ o.returncode # 0                                        \* line 202
            \/ ContainsWord(o.stderr, "[Errno")                        \* line 206
            \/ ContainsWordLower(o.stderr, "error")
            \/ ~Exists(files, dir, CountsTxt)                          \* line 210
    IN  [ tool |-> "featureCounts", ran |-> TRUE,
          raised |-> IF failed THEN "ToolFailed"
                     ELSE IF ~o.well_formed THEN "ParseError"           \* lines 223-231
                     ELSE "none",
          parsed |-> ~failed,
          output |-> FeatureCountGenes(sample_name),
          qc |-> FeatureCountQC(sample_name) ]

\* count_reads_htseq, lines 236-271
count_reads_htseq(sample_name, paired_reads, dir, o, files) ==
    LET failed ==
            \/ o.returncode # 0                                        \* line 251
            \/ ContainsWord(o.stderr, "[Errno")                        \* line 255
    IN  [ tool |-> "HTSeq", ran |-> TRUE,
          raised |-> IF failed THEN "ToolFailed"
                     ELSE IF ~o.well_formed THEN "ParseError"           \* line 264
                     ELSE "none",
          parsed |-> ~failed,
          output |-> HTSeqGenes(sample_name),
          qc |-> HTSeqQC(sample_name) ]

\* run_picard, lines 279-312: the exit code is not looked at
run_picard(sample_name, dir, o, files) ==
    LET failed == ~Exists(files, dir, RnaMetrics)                      \* line 289
    IN  [ tool |-> "Picard", ran |-> TRUE,
          raised |-> IF failed THEN "ToolFailed"
                     ELSE IF ~o.well_formed THEN "ParseError"           \* lines 302-308
                     ELSE "none",
          parsed |-> ~failed,
          output |-> <<>>,
          qc |-> PicardQC(sample_name) ]

\* str.lower() of the values --aligner_tools and --counter_tools are given here
LowerChoice(choice) ==
    CASE choice = "STAR" -> "star"
      [] choice = "HISAT2" -> "hisat2"
      [] choice = "featureCount" -> "featurecount"
      [] choice = "HTSeq" -> "htseq"
      [] OTHER -> choice

\* lines 377-383: an aligner that is not supported falls back to STAR
AlignerUsed(choice) ==
    IF LowerChoice(choice) = "star" THEN "STAR"
    ELSE IF LowerChoice(choice) = "hisat" \/ LowerChoice(choice) = "hisat2" THEN "HISAT2"
    ELSE "STAR"

\* lines 387-396: a counter that is not supported falls back to featureCounts
CounterUsed(choice) ==
    IF LowerChoice(choice) = "featurecount" \/ LowerChoice(choice) = "featurecounts"
    THEN "featureCounts"
    ELSE IF LowerChoice(choice) = "htseq" THEN "HTSeq"
    ELSE "featureCounts"

\* the file a tool writes when it writes its output
OutputEntry(tool) ==
    CASE tool = "STAR" -> StarLog
      [] tool = "HISAT2" -> "aligner_output/output.sam"
      [] tool = "featureCounts" -> CountsTxt
      [] tool = "HTSeq" -> "stdout"
      [] tool = "Picard" -> RnaMetrics

\* the scratch files once the tool has run with outcome o
AfterTool(files, dir, tool, o) ==
    IF o.writes_output /\ tool \in {"STAR", "featureCounts", "Picard"}
    THEN WriteFile(files, dir, OutputEntry(tool))
    ELSE files

\* (mutant) a step that raised hands over the records it had collected
ReturnedOnRaise_Partial(t) == Some(t.counter_output)

\* what the engine gets from a step that raised: the exception, no records
ReturnedOnRaise(t) == None

\* the ToolInvocation a step leaves behind
InvocationOf(p, r, o, files, dir) ==
    Some([ task |-> p, tool |-> r.tool, ran |-> r.ran,
           returncode |-> o.returncode, stderr |-> o.stderr,
           output_exists |-> Exists(files, dir, OutputEntry(r.tool)),
           well_formed |-> o.well_formed,
           raised |-> r.raised, parsed |-> r.parsed ])

\* ---- the partitions the stage is run on
SingleEndContent == << MkLine(1, 0, fastq_line_count_se, 0) >>
PairedEndContent == << MkLine(1, 0, fastq_line_count_pe, 0) >>

S1_part0_fq == S1 \o PART \o <<"0", ".", "f", "q">>

PartitionNames == { <<S1_part0_txt, S1_part1_txt>>, <<S1_part0_txt, S1_part0_fq>> }

AlignerChoices == {"STAR", "HISAT2", "bowtie"}
CounterChoices == {"featureCount", "HTSeq", "StringTie"}

NewTask ==
    [ pc |-> "ready", prefix |-> <<>>, sample_name |-> <<>>, alignment_dir |-> <<>>,
      split_file_names |-> <<>>, paired_reads |-> FALSE,
      aligner_qc_output |-> <<>>, counter_output |-> <<>>, counter_qc_output |-> <<>> ]

Partitions == DOMAIN input_files

Init ==
    /\ parser_result \in
          [aligner : AlignerChoices, counter : CounterChoices, run_picard : BOOLEAN]
    /\ \E names \in PartitionNames,
          contents \in [1..2 -> {SingleEndContent, PairedEndContent}] :
          input_files = [p \in 1..2 |-> <<names[p], contents[p]>>]
    /\ task = [p \in 1..2 |-> NewTask]
    /\ fs = {}
    /\ emitted = [p \in 1..2 |-> None]
    /\ invocation = None
    /\ NameIdle
    /\ SplitIdle
    /\ AggIdle

\* lines 355-375: the scratch directory is made, the batch split into it
StartStep(p) ==
    /\ task[p].pc = "ready"
    /\ LET file_name == input_files[p][1]
           file_content == input_files[p][2]
           prefix == Prefix(file_name)
           alignment_dir == AlignmentDir(prefix)
           split == split_interleaved_file(prefix, file_content, alignment_dir)
           fs1 == Mkdir(fs, alignment_dir, DirEntry)
           fs2 == WriteFile(fs1, alignment_dir, "_1.fq")
           fs3 == IF split.paired_reads THEN WriteFile(fs2, alignment_dir, "_2.fq") ELSE fs2
       IN  /\ task' = [task EXCEPT ![p] =
                          [@ EXCEPT !.pc = "align",
                                    !.prefix = prefix,
                                    !.sample_name = SampleNameOfPrefix(prefix),
                                    !.alignment_dir = alignment_dir,
                                    !.split_file_names = split.output_file_names,
                                    !.paired_reads = split.paired_reads]]
           /\ fs' = Mkdir(fs3, alignment_dir, AlignerOutputDir)
    /\ UNCHANGED <<parser_result, input_files, emitted, invocation,
                   nameVars, splitVars, aggVars>>

\* the task of p ends with the exception r.raised
Raise(p) ==
    /\ task' = [task EXCEPT ![p].pc = "failed"]
    /\ emitted' = [emitted EXCEPT ![p] = ReturnedOnRaise(task[p])]

\* lines 377-385: the aligner runs and its log is parsed
AlignStep(p) ==
    /\ task[p].pc = "align"
    /\ \E o \in ToolOutcomes(AlignerUsed(parser_result.aligner)) :
          LET t == task[p]
              tool == AlignerUsed(parser_result.aligner)
              files == AfterTool(fs, t.alignment_dir, tool, o)
              r == IF tool = "HISAT2"
                   THEN align_reads_hisat(t.sample_name, t.split_file_names,
                                          t.alignment_dir, o, files)
                   ELSE align_reads_star(t.sample_name, t.split_file_names,
                                         t.alignment_dir, o, files)
          IN  /\ fs' = IF r.ran THEN files ELSE fs
              /\ invocation' = InvocationOf(p, r, o, files, t.alignment_dir)
              /\ IF r.raised # "none"
                 THEN Raise(p)
                 ELSE /\ task' = [task EXCEPT ![p] =
                                     [@ EXCEPT !.pc = "count",
                                               !.aligner_qc_output = r.qc]]
                      /\ UNCHANGED emitted
    /\ UNCHANGED <<parser_result, input_files, nameVars, splitVars, aggVars>>

\* lines 387-399: the counter runs, its output is parsed, the lists are joined
CountStep(p) ==
    /\ task[p].pc = "count"
    /\ \E o \in ToolOutcomes(CounterUsed(parser_result.counter)) :
          LET t == task[p]
              tool == CounterUsed(parser_result.counter)
              files == AfterTool(fs, t.alignment_dir, tool, o)
              r == IF tool = "HTSeq"
                   THEN count_reads_htseq(t.sample_name, t.paired_reads,
                                          t.alignment_dir, o, files)
                   ELSE count_reads_featurecount(t.sample_name, t.paired_reads,
                                                 t.alignment_dir, o, files)
          IN  /\ fs' = files
              /\ invocation' = InvocationOf(p, r, o, files, t.alignment_dir)
              /\ IF r.raised # "none"
                 THEN Raise(p)
                 ELSE /\ task' = [task EXCEPT ![p] =
                                     [@ EXCEPT !.pc = IF parser_result.run_picard
                                                      THEN "picard" ELSE "cleanup",
                                               !.counter_qc_output = r.qc,
                                               !.counter_output =
                                                   r.output \o t.aligner_qc_output \o r.qc]]
                      /\ UNCHANGED emitted
    /\ UNCHANGED <<parser_result, input_files, nameVars, splitVars, aggVars>>

\* lines 401-403: the QC tool runs when configured
PicardStep(p) ==
    /\ task[p].pc = "picard"
    /\ \E o \in ToolOutcomes("Picard") :
          LET t == task[p]
              files == AfterTool(fs, t.alignment_dir, "Picard", o)
              r == run_picard(t.sample_name, t.alignment_dir, o, files)
          IN  /\ fs' = files
              /\ invocation' = InvocationOf(p, r, o, files, t.alignment_dir)
              /\ IF r.raised # "none"
                 THEN Raise(p)
                 ELSE /\ task' = [task EXCEPT ![p] =
                                     [@ EXCEPT !.pc = "cleanup",
                                               !.counter_output = @ \o r.qc]]
                      /\ UNCHANGED emitted
    /\ UNCHANGED <<parser_result, input_files, nameVars, splitVars, aggVars>>

\* lines 405-406: the scratch directory is removed and the list returned
FinishStep(p) ==
    /\ task[p].pc = "cleanup"
    /\ fs' = Rmtree(fs, task[p].alignment_dir)
    /\ emitted' = [emitted EXCEPT ![p] = Some(task[p].counter_output)]
    /\ task' = [task EXCEPT ![p].pc = "done"]
    /\ UNCHANGED <<parser_result, input_files, invocation, nameVars, splitVars, aggVars>>

Start == \E p \in Partitions : StartStep(p)
Align == \E p \in Partitions : AlignStep(p)
Count == \E p \in Partitions : CountStep(p)
Picard == \E p \in Partitions : PicardStep(p)
Finish == \E p \in Partitions : FinishStep(p)

Next ==
    \/ Start
    \/ Align
    \/ Count
    \/ Picard
    \/ Finish

Spec == Init /\ [][Next]_vars

(***************************************************************************)
(* Properties                                                              *)
(***************************************************************************)

\* ---- what "stripping the path, the extension and a trailing _part suffix"
\* ---- denotes, stated without split/rsplit
HasChar(s, c) == \E i \in 1..Len(s) : s[i] = c

\* the name without its trailing "/"s
WithoutTrailingSlash(n) ==
    CHOOSE m \in {SubSeq(n, 1, k) : k \in 0..Len(n)} :
        /\ \A i \in (Len(m) + 1)..Len(n) : n[i] = "/"
        /\ (m = <<>> \/ m[Len(m)] # "/")

\* the last path component
WithoutPath(n) ==
    LET m == WithoutTrailingSlash(n)
    IN  CHOOSE b \in {Tail_From(m, k + 1) : k \in 0..Len(m)} :
            /\ ~HasChar(b, "/")
            /\ (Len(b) = Len(m) \/ m[Len(m) - Len(b)] = "/")

\* the component up to its first "."
WithoutExtension(b) ==
    CHOOSE t \in {SubSeq(b, 1, k) : k \in 0..Len(b)} :
        /\ ~HasChar(t, ".")
        /\ (Len(t) = Len(b) \/ b[Len(t) + 1] = ".")

\* the stem without its last "_part..." suffix, if it has one
WithoutPartSuffix(t) ==
    IF \E k \in 1..Len(t) : OccursAt(t, PART, k)
    THEN CHOOSE u \in {SubSeq(t, 1, k) : k \in 0..Len(t)} :
            /\ OccursAt(t, PART, Len(u) + 1)
            /\ \A j \in (Len(u) + 2)..Len(t) : ~OccursAt(t, PART, j)
    ELSE t


\* C4: the sample_name derived from a partition name is the name with its
\* path, its extension (everything from the first "." of the last path
\* component) and its trailing "_part..." suffix stripped; in particular
\* S1_part0.txt and S1_part1.txt both give S1, and so does every name
\* <dir>/S1_part<N>.txt.
C4_SampleIdStripsPathExtensionPart ==
    /\ SampleName(S1_part0_txt) = S1
    /\ SampleName(S1_part1_txt) = S1
    /\ nm_sample_name # None =>
          /\ ValueOf(nm_sample_name) =
                WithoutPartSuffix(WithoutExtension(WithoutPath(nm_file_name)))
          /\ \A dir \in {<<>>, SLASH, S1 \o SLASH}, n \in {<<"0">>, <<"1">>, <<"1", "0">>} :
                nm_file_name = dir \o S1 \o PART \o n \o <<".", "t", "x", "t">>
                    => ValueOf(nm_sample_name) = S1

C4_Witness ==
    /\ nm_file_name = S1_part1_txt
    /\ nm_sample_name = Some(S1)

\* the number of tab-separated fields of the first line of the batch, white
\* space around the batch and around the line not counted (the first
\* non-empty line of the spec)
FirstLineFieldCount(content) ==
    IF \A i \in 1..Len(content) : \A k \in 1..Len(content[i]) : content[i][k] = EmptyStr
    THEN 1
    ELSE LET i == MinOf({j \in 1..Len(content) :
                            \E k \in 1..Len(content[j]) : content[j][k] # EmptyStr})
             used == {k \in 1..Len(content[i]) : content[i][k] # EmptyStr}
         IN  MaxOf(used) - MinOf(used) + 1

\* C6: split_interleaved_file returns two file paths and paired = true when
\* the first line of the batch has 8 fields, and one file path and
\* paired = false for every other field count of the first line (4 included).
C6_SplitterArityFromFirstLine ==
    sp_result # None =>
        LET r == ValueOf(sp_result)
        IN  IF FirstLineFieldCount(sp_content) = 8
            THEN Len(r.output_file_names) = 2 /\ r.paired_reads
            ELSE Len(r.output_file_names) = 1 /\ ~r.paired_reads

C6_Witness ==
    /\ sp_result # None
    /\ Len(sp_content) = 2
    /\ FirstLineFieldCount(sp_content) = 4
    /\ Len(sp_content[2]) = 8
    /\ Len(ValueOf(sp_result).output_file_names) = 1
    /\ ~ValueOf(sp_result).paired_reads
    /\ Len(ValueOf(sp_result).written[1]) = 12

\* ---- the aggregation, stated from the partitions' reports
Samples == {ag_input[i].sample_name : i \in 1..Len(ag_input)}

\* the partitions of a sample whose tools reported key
Reporting(sample, key) ==
    {i \in 1..Len(ag_input) :
        ag_input[i].sample_name = sample /\ key \in ag_input[i].keys}

RECURSIVE SumCounts(_)
SumCounts(parts) ==
    IF parts = {} THEN 0
    ELSE LET i == CHOOSE j \in parts : TRUE
         IN  ag_input[i].count + SumCounts(parts \ {i})

\* the cell of row key and column sample, NaN when the frame has no such row or column
Cell(df, key, sample) ==
    IF key \in Range(df.index) /\ sample \in Range(df.columns)
    THEN df.values[CHOOSE r \in 1..Len(df.index) : df.index[r] = key]
                  [CHOOSE c \in 1..Len(df.columns) : df.columns[c] = sample]
    ELSE NaN

\* C2: the cell (Key, SampleId) of the aggregated matrix is the sum of the
\* counts that the partitions of that sample reported for that key.
C2_CellIsSumOverPartitions ==
    count_summary # None =>
        \A key \in ReportedKeys, sample \in Samples :
            Reporting(sample, key) # {} =>
                Cell(ValueOf(count_summary), key, sample)
                    = Some(SumCounts(Reporting(sample, key)))

C2_Witness ==
    /\ count_summary # None
    /\ Reporting(S1, G1) = {1, 2}
    /\ ag_input[1].count = 1
    /\ ag_input[2].count = 1
    /\ Cell(ValueOf(count_summary), G1, S1) = Some(2)

\* the records of all partitions in partition order, as a local run would see them
AllReturned == Flatten([i \in 1..Len(ag_input) |-> ag_input[i].returned])

\* reduceByKey applied left to right: the keys in order of first appearance
RECURSIVE FoldByKey(_, _, _)
FoldByKey(F(_, _), done, rest) ==
    IF rest = <<>> THEN done
    ELSE LET kv == Head(rest)
             hit == {i \in 1..Len(done) : done[i][1] = kv[1]}
         IN  IF hit = {}
             THEN FoldByKey(F, Append(done, kv), Tail(rest))
             ELSE LET i == CHOOSE j \in hit : TRUE
                  IN  FoldByKey(F, [done EXCEPT ![i] = <<kv[1], F(done[i][2], kv[2])>>],
                                Tail(rest))

RECURSIVE FoldFrames(_, _)
FoldFrames(acc, rest) ==
    IF rest = <<>> THEN acc
    ELSE FoldFrames(combine_gene_counts(acc, Head(rest)), Tail(rest))

\* the frame one fixed left-to-right evaluation of lines 471-474 gives
LeftToRightSummary ==
    LET summed == FoldByKey(sum_gene_counts, <<>>, AllReturned)
        keyed == [i \in 1..Len(summed) |-> set_gene_id_as_key(summed[i])]
        merged == FoldByKey(merge_count_by_gene_id, <<>>, keyed)
        dfs == [i \in 1..Len(merged) |-> process_count_by_gene_id(merged[i])]
    IN  FoldFrames(Head(dfs), Tail(dfs))

\* C3: whatever order and grouping the engine applied the three reduce
\* functions in, the two files written are those of the left-to-right
\* evaluation of the same records.
C3_ReportsIndependentOfReduceOrder ==
    ag_pc = "written" =>
        /\ expressions_file = Some(ExpressionReport(LeftToRightSummary))
        /\ qc_report_file = Some(QCReport(LeftToRightSummary))

C3_Witness ==
    /\ ag_pc = "written"
    /\ ValueOf(count_summary).index = <<QC_a, G2, G1>>
    /\ ValueOf(count_summary) # LeftToRightSummary
    /\ Reporting(S1, G2) = {1, 2}
    /\ Reporting(<<"S", "2">>, G1) = {3}

IsQCKey(k) == Len(k) >= 3 /\ k[1] = "Q" /\ k[2] = "C" /\ k[3] = "_"

RowsOf(df) == {<<df.index[r], df.columns, df.values[r]>> : r \in 1..Len(df.index)}

Ascending(index) == \A i, j \in 1..Len(index) : i < j => StrLess(index[i], index[j])

\* C5: every row of the aggregated matrix is in exactly one report: the rows
\* whose key starts with QC_ make up the QC report, the others the expression
\* matrix, and each report has its rows in ascending key order.
C5_RowsSplitByPrefixAndSorted ==
    ag_pc = "written" =>
        LET all == ValueOf(count_summary)
            ex == ValueOf(expressions_file)
            qc == ValueOf(qc_report_file)
        IN  /\ RowsOf(qc) = {row \in RowsOf(all) : IsQCKey(row[1])}
            /\ RowsOf(ex) = {row \in RowsOf(all) : ~IsQCKey(row[1])}
            /\ Len(qc.index) + Len(ex.index) = Len(all.index)
            /\ Ascending(qc.index)
            /\ Ascending(ex.index)

C5_Witness ==
    /\ ag_pc = "written"
    /\ ValueOf(count_summary).index = <<G2, QC_a, G1>>
    /\ ValueOf(expressions_file).index = <<G1, G2>>
    /\ ValueOf(qc_report_file).index = <<QC_a>>

\* C9: the aggregated matrix has a row for a key exactly when some partition
\* reported it, and in that row the cell of a sample is set exactly when a
\* partition of that sample reported the key; a cell nobody reported is NaN,
\* not 0.
C9_MatrixIsSparse ==
    count_summary # None =>
        LET all == ValueOf(count_summary)
        IN  /\ \A key \in ReportedKeys :
                  key \in Range(all.index) <=> \E s \in Samples : Reporting(s, key) # {}
            /\ Range(all.index) \subseteq ReportedKeys
            /\ Range(all.columns) \subseteq Samples
            /\ \A key \in ReportedKeys, sample \in Samples :
                  Cell(all, key, sample) # NaN <=> Reporting(sample, key) # {}

C9_Witness ==
    /\ count_summary # None
    /\ Reporting(S1, G1) = {1}
    /\ ag_input[1].count = 0
    /\ Reporting(<<"S", "2">>, G1) = {}
    /\ Reporting(<<"S", "2">>, G2) = {3}
    /\ Cell(ValueOf(count_summary), G1, S1) = Some(0)
    /\ <<"S", "2">> \in Range(ValueOf(count_summary).columns)
    /\ Cell(ValueOf(count_summary), G1, <<"S", "2">>) = NaN

\* ---- the flatMap stage
Finished(p) == task[p].pc \in {"done", "failed"}
Running(p) == task[p].pc \in {"align", "count", "picard", "cleanup"}

\* C1: once alignment_count_step has finished for a partition, by returning
\* or by an error of the splitter or of a tool step, the partition's scratch
\* directory no longer exists.
C1_ScratchRemovedOnEveryExit ==
    \A p \in Partitions :
        Finished(p) => ~Exists(fs, task[p].alignment_dir, DirEntry)

\* the list a partition returns when all its steps succeed: the counter's
\* records, the aligner's QC, the counter's QC and, if configured, Picard's
CompleteList(p) ==
    LET sample == SampleName(input_files[p][1])
        aligner == AlignerUsed(parser_result.aligner)
        counter == CounterUsed(parser_result.counter)
    IN  (IF counter = "HTSeq" THEN HTSeqGenes(sample) ELSE FeatureCountGenes(sample))
        \o (IF aligner = "HISAT2" THEN HisatQC(sample) ELSE StarQC(sample))
        \o (IF counter = "HTSeq" THEN HTSeqQC(sample) ELSE FeatureCountQC(sample))
        \o (IF parser_result.run_picard THEN PicardQC(sample) ELSE <<>>)

\* C7: a partition hands the engine its complete record list or nothing: a
\* partition one of whose steps failed hands over none of the records its
\* earlier steps produced, and what the other partitions handed over stays
\* complete.
C7_AllOrNothingPerPartition ==
    \A p \in Partitions :
        /\ emitted[p] = None \/
              (task[p].pc = "done" /\ emitted[p] = Some(CompleteList(p)))
        /\ task[p].pc = "failed" => emitted[p] = None

C7_Witness ==
    /\ Partitions = {1, 2}
    /\ task[1].pc = "failed"
    /\ task[1].counter_output # <<>>
    /\ invocation # None
    /\ ValueOf(invocation).task = 1
    /\ ValueOf(invocation).tool = "Picard"
    /\ emitted[1] = None
    /\ emitted[2] = Some(CompleteList(2))

\* the success predicate of each tool
SuccessPredicate(inv) ==
    CASE inv.tool = "STAR" ->
            inv.returncode = 0 /\ inv.stderr = <<>> /\ inv.output_exists
      [] inv.tool = "HISAT2" ->
            inv.returncode = 0
      [] inv.tool = "featureCounts" ->
            /\ inv.returncode = 0
            /\ inv.stderr \notin {<<"ERROR">>, <<"[Errno">>}
            /\ inv.output_exists
      [] inv.tool = "HTSeq" ->
            inv.returncode = 0 /\ inv.stderr # <<"[Errno">>
      [] inv.tool = "Picard" ->
            inv.output_exists

\* C8 as stated: a tool step raises an error, fatal to the partition,
\* exactly when the success predicate of its tool fails, and parses no output
\* of a tool whose predicate failed.
C8_RaisesExactlyWhenPredicateFails ==
    invocation # None =>
        LET inv == ValueOf(invocation)
        IN  /\ inv.raised # "none" <=> ~(inv.ran /\ SuccessPredicate(inv))
            /\ inv.raised # "none" => task[inv.task].pc = "failed"
            /\ inv.parsed => inv.ran /\ SuccessPredicate(inv)

\* C8 amended: a tool step raises its tool-failure error exactly when the
\* tool ran and its success predicate fails, and then parses nothing; every
\* error of a step is fatal to the partition; a step whose tool succeeded can
\* still raise, from the parser, and the HISAT2 step of a single-end
\* partition raises before the tool is started.
C8_ToolFailureExactlyWhenPredicateFails ==
    invocation # None =>
        LET inv == ValueOf(invocation)
        IN  /\ inv.raised = "ToolFailed" <=> (inv.ran /\ ~SuccessPredicate(inv))
            /\ inv.raised = "none" => inv.ran /\ SuccessPredicate(inv) /\ inv.parsed
            /\ inv.raised = "ParseError" => inv.ran /\ SuccessPredicate(inv) /\ inv.parsed
            /\ inv.raised = "IndexError" => ~inv.ran /\ inv.tool = "HISAT2"
            /\ inv.raised # "none" =>
                  task[inv.task].pc = "failed" /\ emitted[inv.task] = None
            /\ inv.parsed => inv.ran /\ SuccessPredicate(inv)

C8_Witness ==
    /\ invocation # None
    /\ ValueOf(invocation).tool = "featureCounts"
    /\ ValueOf(invocation).returncode = 0
    /\ ValueOf(invocation).stderr = <<"ERROR">>
    /\ ValueOf(invocation).output_exists
    /\ ValueOf(invocation).raised = "ToolFailed"
    /\ ~ValueOf(invocation).parsed
    /\ task[ValueOf(invocation).task].pc = "failed"

\* C10: two partitions of different names that are being processed at the
\* same time never have the same scratch directory.
C10_ScratchDirUniquePerName ==
    \A p, q \in Partitions :
        (/\ p # q
         /\ input_files[p][1] # input_files[q][1]
         /\ Running(p)
         /\ Running(q))
            => task[p].alignment_dir # task[q].alignment_dir

\* ---- the splitter, on empty and on paired-end batches
\* C11: for empty input content split_interleaved_file creates its output
\* file and writes nothing to it: the file holds no line.
C11_EmptyInputWritesNoLine ==
    (sp_result # None /\ sp_content = <<>>) =>
        LET r == ValueOf(sp_result)
        IN  /\ Len(r.output_file_names) = 1
            /\ Len(r.written) = 1
            /\ r.written[1] = <<>>

\* the tab-separated fields of a line, white space around the line not counted
LineFields(line) ==
    LET used == {k \in 1..Len(line) : line[k] # EmptyStr}
    IN  IF used = {} THEN <<EmptyStr>> ELSE SubSeq(line, MinOf(used), MaxOf(used))

HasEightFields(line) == Len(LineFields(line)) = 8

\* the i-th record, of 4 lines, of a FASTQ file
RecordOf(file, i) == SubSeq(file, 4 * (i - 1) + 1, 4 * i)

\* C13: for a paired-end batch (its first line has 8 fields) the lines that
\* do not have exactly 8 fields are skipped, both mate files hold one record
\* for each line of 8 fields, and the i-th record of the mate-1 file and of
\* the mate-2 file are the first 4 and the last 4 fields of the i-th such line.
C13_MatesInMatchingOrder ==
    (sp_result # None /\ FirstLineFieldCount(sp_content) = 8) =>
        LET r == ValueOf(sp_result)
            kept == SelectSeq(sp_content, HasEightFields)
        IN  /\ Len(r.written) = 2
            /\ Len(r.written[1]) = 4 * Len(kept)
            /\ Len(r.written[2]) = 4 * Len(kept)
            /\ \A i \in 1..Len(kept) :
                  /\ RecordOf(r.written[1], i) = SubSeq(LineFields(kept[i]), 1, 4)
                  /\ RecordOf(r.written[2], i) = SubSeq(LineFields(kept[i]), 5, 8)

C13_Witness ==
    /\ sp_result # None
    /\ Len(sp_content) = 3
    /\ FirstLineFieldCount(sp_content) = 8
    /\ Len(LineFields(sp_content[2])) = 3
    /\ Len(sp_content[3]) = 9
    /\ HasEightFields(sp_content[3])
    /\ Len(ValueOf(sp_result).written[1]) = 8
    /\ RecordOf(ValueOf(sp_result).written[2], 2) = SubSeq(sp_content[3], 5, 8)

\* ---- the order of the steps of a partition
\* the moves of a partition from one step to the next when nothing fails
StepOrder ==
    { <<"ready", "align">>, <<"align", "count">>,
      <<"count", IF parser_result.run_picard THEN "picard" ELSE "cleanup">>,
      <<"picard", "cleanup">>, <<"cleanup", "done">> }

\* the step of p just taken ended on a tool that ran and failed its success
\* predicate or whose output was not well formed
FailedOnTool(p) ==
    /\ task'[p].pc = "failed"
    /\ invocation' # None
    /\ ValueOf(invocation').task = p
    /\ ValueOf(invocation').ran
    /\ \/ ~SuccessPredicate(ValueOf(invocation'))
       \/ ~ValueOf(invocation').well_formed

\* C12: for every partition and every aligner and counter choice the steps
\* are taken in the order Split, Align, Count, Picard (only when configured),
\* a step is left for the next one unless its tool failed its success
\* predicate or gave output that is not well formed, and the partition
\* returns the counter records, the aligner QC, the counter QC and the
\* Picard QC, concatenated.
C12_StepsInOrderWhenToolsSucceed ==
    [][\A p \in Partitions :
          /\ task'[p].pc # task[p].pc =>
                (<<task[p].pc, task'[p].pc>> \in StepOrder \/ FailedOnTool(p))
          /\ (task[p].pc # "done" /\ task'[p].pc = "done") =>
                emitted'[p] = Some(CompleteList(p))]_vars

=============================================================================
